---- MODULE Spec2Model ----
(***************************************************************************)
(* A model of the bencode decoder of bittorrent-rs: src/src/lib.rs (the    *)
(* library copy, with Dict support and the unit tests) and src/src/main.rs *)
(* (the copy the CLI `decode` command calls).                              *)
(*                                                                         *)
(* A character is a one-character string.  A cursor                        *)
(* (BencodedDecodeInput) is the pair of the shared character sequence      *)
(* `data` and a zero-based `index`; data[index + 1] is the next character. *)
(* The decoders are pure functions of (data, index) and are operators      *)
(* here; the iterators and the entry points are the actions.               *)
(*                                                                         *)
(* Arithmetic: the length accumulator is a usize and the integer           *)
(* accumulator an i64.  Every text of the model has fewer than ten digits, *)
(* so neither can leave its range and the accumulators are plain integers. *)
(***************************************************************************)
EXTENDS Integers, Sequences, FiniteSets, TLC

\* ------------------------------------------------------------------ bounds
\* Longest text drawn from the whole alphabet.
MaxLen == 4
\* Longest well-formed bencode text generated from the grammar.
MaxValueLen == 6
\* Longest run of characters put after a well-formed text.
MaxTrail == 1

\* ------------------------------------------------------------- characters
Digits == {"0", "1", "2", "3", "4", "5", "6", "7", "8", "9"}

\* char::to_digit(10) on a decimal digit.
DigitVal ==
    [c \in Digits |->
        CASE c = "0" -> 0 [] c = "1" -> 1 [] c = "2" -> 2 [] c = "3" -> 3
          [] c = "4" -> 4 [] c = "5" -> 5 [] c = "6" -> 6 [] c = "7" -> 7
          [] c = "8" -> 8 [] c = "9" -> 9]

\* The characters the inputs are made of: two digits, every structural
\* marker and the sign.  The decoders tell apart the digits, ':', 'e', 'i',
\* 'l' and 'd'; every other character, '-' included, takes the same branches.
Alphabet == {"0", "1", ":", "i", "l", "d", "e", "-"}

\* ------------------------------------------------------------------ values
\* serde_json::Value as the decoders build it, and Option::None.
None == [t |-> "None"]
String(s) == [t |-> "String", s |-> s]
Number(n) == [t |-> "Number", n |-> n]
Array(xs) == [t |-> "Array", a |-> xs]
Object(m) == [t |-> "Object", m |-> m]

\* serde_json::Map: a mapping from key to value; collecting the pairs of an
\* iterator inserts them in order, a repeated key keeping its last value.
EmptyMap == [k \in {} |-> None]
MapInsert(m, k, v) == [x \in (DOMAIN m) \cup {k} |-> IF x = k THEN v ELSE m[x]]

\* The outcome of Decoder::try_decode: Some((val, rest)) is ok with the
\* value and the index of rest; None is ~ok, and idx is then where the
\* decoder's own copy of the cursor stood when it gave up.
Some(v, i) == [ok |-> TRUE, val |-> v, idx |-> i]
Fail(i) == [ok |-> FALSE, val |-> None, idx |-> i]

Min(a, b) == IF a < b THEN a ELSE b

\* The accumulator of the two digit folds, an Option of a number.
SomeNum(n) == [ok |-> TRUE, n |-> n]
NoNum == [ok |-> FALSE, n |-> 0]

\* The closure of both folds: acc?, ch.to_digit(10)?, Some(10*acc + digit).
FoldStep(acc, ch) ==
    IF ~acc.ok \/ ch \notin Digits THEN NoNum
    ELSE SomeNum(10 * acc.n + DigitVal[ch])

\* ---------------------------------------------------------------- decoders
\* Each step of a decoder that returns early with `?` is an operator of its
\* own, taking the outcome of the step before it.

\* BencodedDecodeInputIterMut::next: the character at the cursor, or None
\* at the end of the data; the index moves by one only when there is one.
IterMutNext(data, i) ==
    IF i < Len(data) THEN Some(data[i + 1], i + 1) ELSE Fail(i)

\* The length scan of StringDecoder::try_decode:
\* take_while(ch != ':').fold(Some(0), ...): characters are drawn until a
\* ':' (drawn too) or the end of the data; the fold runs over all of them
\* and is None as soon as one of them is no digit.
RECURSIVE ScanLen(_, _, _)
ScanLen(data, i, acc) ==
    IF i >= Len(data) THEN [len |-> acc, idx |-> i]
    ELSE IF data[i + 1] = ":" THEN [len |-> acc, idx |-> i + 1]
    ELSE ScanLen(data, i + 1, FoldStep(acc, data[i + 1]))

\* take(len).collect::<String>() after the scan: the characters that are
\* there, at most len of them.
TakeString(data, scan) ==
    IF ~scan.len.ok THEN Fail(scan.idx)
    ELSE Some(String(SubSeq(data, scan.idx + 1,
                            Min(scan.idx + scan.len.n, Len(data)))),
              Min(scan.idx + scan.len.n, Len(data)))

StringDecoder(data, i) == TakeString(data, ScanLen(data, i, SomeNum(0)))

\* The fold over the remaining digits of IntegerDecoder::try_decode: the
\* take_while(ch != 'e') draws until an 'e' (drawn too) or the end of data.
RECURSIVE FoldDigits(_, _, _)
FoldDigits(data, i, acc) ==
    IF i >= Len(data) THEN [num |-> acc, idx |-> i]
    ELSE IF data[i + 1] = "e" THEN [num |-> acc, idx |-> i + 1]
    ELSE FoldDigits(data, i + 1, FoldStep(acc, data[i + 1]))

\* One next() of the take_while(ch != 'e') adapter: None at the end of the
\* data and on 'e' (which is drawn).
TakeUntilE(data, i) ==
    IF i >= Len(data) THEN Fail(i)
    ELSE IF data[i + 1] = "e" THEN Fail(i + 1)
    ELSE Some(data[i + 1], i + 1)

\* The end of IntegerDecoder::try_decode: the folded number, negated when
\* is_neg.
IntegerRest(rest, is_neg) ==
    IF ~rest.num.ok THEN Fail(rest.idx)
    ELSE Some(Number(IF is_neg THEN 0 - rest.num.n ELSE rest.num.n), rest.idx)

\* The or_else closure: first_char was no digit, and the character after
\* it has to be the first digit.
IntegerSecond(data, ch) ==
    IF ~ch.ok \/ ch.val \notin Digits THEN Fail(ch.idx)
    ELSE IntegerRest(FoldDigits(data, ch.idx, SomeNum(DigitVal[ch.val])), TRUE)

\* (is_neg, init) from first_char: a digit starts the number, anything else
\* is taken for the sign.
IntegerFirst(data, first) ==
    IF ~first.ok THEN Fail(first.idx)
    ELSE IF first.val \in Digits
    THEN IntegerRest(FoldDigits(data, first.idx, SomeNum(DigitVal[first.val])), FALSE)
    ELSE IntegerSecond(data, TakeUntilE(data, first.idx))

\* skip(1) drops the character at the cursor unseen; first_char is the next
\* one.
IntegerDecoder(data, i) ==
    IntegerFirst(data, TakeUntilE(data, IterMutNext(data, i).idx))

FailureDecoder(data, i) == Fail(i)

\* BencodedDecodeInput::next_decoder of lib.rs.
next_decoder(data, i) ==
    IF i >= Len(data) THEN "Failure"
    ELSE CASE data[i + 1] \in Digits -> "String"
           [] data[i + 1] = "i" -> "Integer"
           [] data[i + 1] = "l" -> "List"
           [] data[i + 1] = "d" -> "Dict"
           [] OTHER -> "Failure"

RECURSIVE try_decode(_, _, _)
RECURSIVE ListIterCollect(_, _, _)
RECURSIVE DictIterCollect(_, _, _)

\* The match of run_decoder: Some((val, rest)) is passed on, anything else
\* becomes None with the cursor that was passed in.
OrInput(r, i) == IF r.ok THEN r ELSE Fail(i)

\* run_decoder with the failure arm returning the cursor the attempt worked
\* on instead of the one passed in.
run_decoder_leaking(dec, data, i) == try_decode(dec, data, i)

\* Decoder::run_decoder.
run_decoder(dec, data, i) == OrInput(try_decode(dec, data, i), i)

\* BencodedDecodeListIterMut::next: the value and the index it leaves in
\* the iterator's cursor.
ListIterNext(data, i) == run_decoder(next_decoder(data, i), data, i)

\* Some((key, decoded_value?)) of the dict iterator.
DictPair(key, v) ==
    IF v.ok THEN Some(<<key.val.s, v.val>>, v.idx) ELSE Fail(v.idx)

\* The dict iterator after its key: the key's rest is stored in the cursor,
\* and a value is decoded there when there is a key.
DictValue(data, key) ==
    IF ~key.ok THEN Fail(key.idx)
    ELSE DictPair(key, run_decoder(next_decoder(data, key.idx), data, key.idx))

\* BencodedDecodeDictIterMut::next: the pair and the index it leaves in the
\* iterator's cursor, whether or not a pair is returned.
DictIterNext(data, i) == DictValue(data, run_decoder("String", data, i))

\* collect() over the list iterator: next() is called until it is None.
ListCollected(data, acc, r) ==
    IF r.ok THEN ListIterCollect(data, r.idx, Append(acc, r.val))
    ELSE [items |-> acc, idx |-> r.idx]

ListIterCollect(data, i, acc) == ListCollected(data, acc, ListIterNext(data, i))

\* collect() over the dict iterator, into a serde_json::Map.
DictCollected(data, acc, r) ==
    IF r.ok THEN DictIterCollect(data, r.idx, MapInsert(acc, r.val[1], r.val[2]))
    ELSE [items |-> acc, idx |-> r.idx]

DictIterCollect(data, i, acc) == DictCollected(data, acc, DictIterNext(data, i))

\* .filter(|ch| *ch == c)? on a drawn character.
Filter(r, c) == IF r.ok /\ r.val = c THEN r ELSE Fail(r.idx)

\* input.iter_mut().next().filter(|ch| *ch == c)?
Expect(data, i, c) == Filter(IterMutNext(data, i), c)

\* Some((val, input)) once the closing character has been drawn.
Closed(val, close) == IF close.ok THEN Some(val, close.idx) ELSE Fail(close.idx)

\* ListEnd with the closing 'e' left in the input.
ListEnd_unclosed(data, result) == Some(Array(result.items), result.idx)

\* The end of ListDecoder::try_decode of lib.rs: the closing 'e' is drawn
\* and checked after the elements.
ListEnd(data, result) ==
    Closed(Array(result.items), Expect(data, result.idx, "e"))

ListElements(data, open) ==
    IF ~open.ok THEN Fail(open.idx)
    ELSE ListEnd(data, ListIterCollect(data, open.idx, <<>>))

ListDecoder(data, i) == ListElements(data, Expect(data, i, "l"))

DictEnd(data, result) ==
    Closed(Object(result.items), Expect(data, result.idx, "e"))

DictEntries(data, open) ==
    IF ~open.ok THEN Fail(open.idx)
    ELSE DictEnd(data, DictIterCollect(data, open.idx, EmptyMap))

DictDecoder(data, i) == DictEntries(data, Expect(data, i, "d"))

\* The dynamic dispatch of Decoder::try_decode over the five decoders.
try_decode(dec, data, i) ==
    CASE dec = "String" -> StringDecoder(data, i)
      [] dec = "Integer" -> IntegerDecoder(data, i)
      [] dec = "List" -> ListDecoder(data, i)
      [] dec = "Dict" -> DictDecoder(data, i)
      [] OTHER -> FailureDecoder(data, i)

\* The top-level result with a value that does not end the input refused.
Whole(r, n) == IF r.ok /\ r.idx = n THEN r ELSE Fail(0)

\* decode_bencoded_value demanding that the value ends the input.
decode_bencoded_value_strict(data) ==
    Whole(run_decoder(next_decoder(data, 0), data, 0), Len(data))

\* decode_bencoded_value of lib.rs: the value, or None for the panic.
decode_bencoded_value(data) == run_decoder(next_decoder(data, 0), data, 0)

\* ------------------------------------------------- the copy in main.rs
\* StringDecoder, IntegerDecoder, FailureDecoder, run_decoder, the cursor and
\* decode_bencoded_value of main.rs are the text of lib.rs line for line;
\* next_decoder, ListDecoder and the element iterator differ.

\* BencodedDecodeInput::next_decoder of main.rs: there is no Dict arm.
Main_next_decoder(data, i) ==
    IF i >= Len(data) THEN "Failure"
    ELSE CASE data[i + 1] \in Digits -> "String"
           [] data[i + 1] = "i" -> "Integer"
           [] data[i + 1] = "l" -> "List"
           [] OTHER -> "Failure"

RECURSIVE Main_try_decode(_, _, _)
RECURSIVE Main_IterCollect(_, _, _)

Main_run_decoder(dec, data, i) == OrInput(Main_try_decode(dec, data, i), i)

\* BencodedDecodeIterMut::next of main.rs.
Main_IterNext(data, i) == Main_run_decoder(Main_next_decoder(data, i), data, i)

Main_Collected(data, acc, r) ==
    IF r.ok THEN Main_IterCollect(data, r.idx, Append(acc, r.val))
    ELSE [items |-> acc, idx |-> r.idx]

Main_IterCollect(data, i, acc) == Main_Collected(data, acc, Main_IterNext(data, i))

\* The end of ListDecoder::try_decode of main.rs: the cursor is returned
\* where the element iterator stopped.
Main_ListEnd(results) == Some(Array(results.items), results.idx)

\* let start_ch = input.iter_mut().next()?; (start_ch == 'l').then_some(())?;
Main_ListElements(data, start_ch) ==
    IF ~start_ch.ok \/ start_ch.val # "l" THEN Fail(start_ch.idx)
    ELSE Main_ListEnd(Main_IterCollect(data, start_ch.idx, <<>>))

Main_ListDecoder(data, i) == Main_ListElements(data, IterMutNext(data, i))

Main_try_decode(dec, data, i) ==
    CASE dec = "String" -> StringDecoder(data, i)
      [] dec = "Integer" -> IntegerDecoder(data, i)
      [] dec = "List" -> Main_ListDecoder(data, i)
      [] OTHER -> FailureDecoder(data, i)

\* decode_bencoded_value of main.rs, which the CLI `decode` command calls.
Main_decode_bencoded_value(data) ==
    Main_run_decoder(Main_next_decoder(data, 0), data, 0)

\* ------------------------------------------------------ the bencode grammar
\* The texts of the grammar
\*   string  := <digits> ":" <exactly that many characters>
\*   integer := "i" "-"? <digits> "e"
\*   list    := "l" value* "e"
\*   dict    := "d" (string value)* "e"
\* each with the value it denotes, built from the grammar alone.

\* The texts of exactly n characters over a set of characters.
RECURSIVE TextsOfLen(_, _)
TextsOfLen(chars, n) ==
    IF n <= 0 THEN {<<>>}
    ELSE {Append(s, c) : s \in TextsOfLen(chars, n - 1), c \in chars}

\* All texts over the alphabet of at most n characters.
Texts(n) == UNION {TextsOfLen(Alphabet, k) : k \in 0..n}

\* The number a digit text is the decimal numeral of.
RECURSIVE NumVal(_)
NumVal(d) ==
    IF d = <<>> THEN 0
    ELSE 10 * NumVal(SubSeq(d, 1, Len(d) - 1)) + DigitVal[d[Len(d)]]

\* The non-empty digit texts of at most n characters.
Numerals(n) == UNION {TextsOfLen(Digits \cap Alphabet, k) : k \in 1..n}

StringTexts(n) ==
    UNION {{[text |-> d \o <<":">> \o c, val |-> String(c)] :
               c \in TextsOfLen(Alphabet, NumVal(d))} :
           d \in {x \in Numerals(n - 1) : Len(x) + 1 + NumVal(x) <= n}}

IntegerTexts(n) ==
    {[text |-> <<"i">> \o d \o <<"e">>, val |-> Number(NumVal(d))] :
        d \in Numerals(n - 2)}
    \cup {[text |-> <<"i", "-">> \o d \o <<"e">>, val |-> Number(0 - NumVal(d))] :
        d \in Numerals(n - 3)}

RECURSIVE WellFormed(_)
RECURSIVE ValueSeqs(_)
RECURSIVE PairSeqs(_)

\* value*: the element texts concatenated, with the elements in order.
ValueSeqs(n) ==
    {[text |-> <<>>, vals |-> <<>>]}
    \cup UNION {{[text |-> v.text \o s.text, vals |-> <<v.val>> \o s.vals] :
                    s \in ValueSeqs(n - Len(v.text))} : v \in WellFormed(n)}

\* (string value)*: the pairs concatenated, with the mapping they denote; a
\* repeated key keeps its last value.
PairSeqs(n) ==
    {[text |-> <<>>, pairs |-> <<>>]}
    \cup UNION {UNION {{[text |-> k.text \o v.text \o s.text,
                         pairs |-> <<<<k.val.s, v.val>>>> \o s.pairs] :
                           s \in PairSeqs(n - Len(k.text) - Len(v.text))} :
                        v \in WellFormed(n - Len(k.text))} : k \in StringTexts(n - 2)}

RECURSIVE MapOfPairs(_)
MapOfPairs(ps) ==
    IF ps = <<>> THEN EmptyMap
    ELSE MapInsert(MapOfPairs(SubSeq(ps, 1, Len(ps) - 1)),
                   ps[Len(ps)][1], ps[Len(ps)][2])

\* The well-formed texts of at most n characters.
WellFormed(n) ==
    IF n < 2 THEN {}
    ELSE StringTexts(n) \cup IntegerTexts(n)
         \cup {[text |-> <<"l">> \o s.text \o <<"e">>, val |-> Array(s.vals)] :
                 s \in ValueSeqs(n - 2)}
         \cup {[text |-> <<"d">> \o s.text \o <<"e">>,
                val |-> Object(MapOfPairs(s.pairs))] : s \in PairSeqs(n - 2)}

Grammar == WellFormed(MaxValueLen)
GrammarTexts == {w.text : w \in Grammar}

\* What a well-formed text denotes.
Denotes == [x \in GrammarTexts |-> (CHOOSE w \in Grammar : w.text = x).val]

OneOf(ks) == IF ks = {} THEN 0 ELSE CHOOSE k \in ks : TRUE

\* The length of the well-formed text that starts at index i of data, 0 when
\* none does (no well-formed text is a proper prefix of another).
ValueLenAt(data, i) ==
    OneOf({k \in 1..(Len(data) - i) : SubSeq(data, i + 1, i + k) \in GrammarTexts})

\* ---------------------------------------------------------------- the state
\* data   the shared character sequence of the cursor (Rc<Vec<char>>)
\* index  the index of the cursor the operations act on
\* op     the last operation run on the cursor
\* dec    the decoder of the last run_decoder
\* from   the index of the cursor before the last operation
\* value  what the last operation returned: a value, a character, a
\*        (key, value) pair, or None
VARIABLES data, index, op, dec, from, value

vars == <<data, index, op, dec, from, value>>

Decoders == {"String", "Integer", "List", "Dict", "Failure"}

Char(c) == [t |-> "Char", c |-> c]
Pair(kv) == [t |-> "Pair", k |-> kv[1], v |-> kv[2]]

\* A well-formed text with one of its characters left out.
Omissions ==
    {SubSeq(v, 1, k - 1) \o SubSeq(v, k + 1, Len(v)) :
        <<v, k>> \in {p \in GrammarTexts \X (1..MaxValueLen) : p[2] <= Len(p[1])}}

\* The inputs: every text of at most MaxLen characters, every well-formed
\* text of at most MaxValueLen characters followed by at most MaxTrail
\* characters, and every such well-formed text with one character left out.
Inputs ==
    Texts(MaxLen)
    \cup {v \o t : v \in GrammarTexts, t \in Texts(MaxTrail)}
    \cup Omissions

\* Before the input is read: no cursor exists yet.
Init ==
    /\ data = <<>>
    /\ index = 0
    /\ op = "start"
    /\ dec = "none"
    /\ from = 0
    /\ value = None

\* BencodedDecodeInput::new(data): a cursor at index 0 of the input.
New ==
    /\ op = "start"
    /\ data' \in Inputs
    /\ index' = 0
    /\ op' = "new"
    /\ UNCHANGED <<dec, from, value>>

\* No decode is under way on the cursor.
Idle == op \in {"new", "iter_mut"}

\* The cursor takes the index an operation left, and value what it returned.
Store(r, v) ==
    /\ value' = v
    /\ index' = r.idx

StoreChar(r) == Store(r, IF r.ok THEN Char(r.val) ELSE None)
StoreValue(r) == Store(r, r.val)
StorePair(r) == Store(r, IF r.ok THEN Pair(r.val) ELSE None)

\* input.iter_mut().next()
IterMut ==
    /\ Idle
    /\ StoreChar(IterMutNext(data, index))
    /\ op' = "iter_mut"
    /\ from' = index
    /\ UNCHANGED <<data, dec>>

\* decoder.run_decoder(input) with (value, rest) stored back to the cursor.
RunDecoder(d) ==
    /\ Idle
    /\ StoreValue(run_decoder(d, data, index))
    /\ op' = "run_decoder"
    /\ dec' = d
    /\ from' = index
    /\ UNCHANGED data

\* ListNext with the line that stores rest.index into the cursor left out.
ListNext_unstored ==
    /\ Idle \/ (op = "list_next" /\ value # None)
    /\ value' = ListIterNext(data, index).val
    /\ op' = "list_next"
    /\ from' = index
    /\ UNCHANGED <<data, index, dec>>

\* One next() of the list element iterator; collect() calls it again until
\* it returns None.
ListNext ==
    /\ Idle \/ (op = "list_next" /\ value # None)
    /\ StoreValue(ListIterNext(data, index))
    /\ op' = "list_next"
    /\ from' = index
    /\ UNCHANGED <<data, dec>>

\* One next() of the dict pair iterator.
DictNext ==
    /\ Idle \/ (op = "dict_next" /\ value # None)
    /\ StorePair(DictIterNext(data, index))
    /\ op' = "dict_next"
    /\ from' = index
    /\ UNCHANGED <<data, dec>>

\* decode_bencoded_value of lib.rs on the input; None stands for the panic.
\* The rest cursor is dropped.
DecodeLib ==
    /\ op = "new"
    /\ value' = decode_bencoded_value(data).val
    /\ op' = "decode_lib"
    /\ UNCHANGED <<data, index, dec, from>>

\* decode_bencoded_value of main.rs on the input.
DecodeMain ==
    /\ op = "new"
    /\ value' = Main_decode_bencoded_value(data).val
    /\ op' = "decode_main"
    /\ UNCHANGED <<data, index, dec, from>>

Next ==
    \/ New
    \/ IterMut
    \/ \E d \in Decoders : RunDecoder(d)
    \/ ListNext
    \/ DictNext
    \/ DecodeLib
    \/ DecodeMain

Spec == Init /\ [][Next]_vars


\* ------------------------------------------------------------------ claims
\* The well-formed string that starts at index i of a text: its length, or 0.
StringLenAt(txt, i) ==
    IF i < Len(txt) /\ txt[i + 1] \in Digits THEN ValueLenAt(txt, i) ELSE 0

\* The key positions of a dict whose first key position is i: i, and every
\* position that follows a well-formed key and a well-formed value.
RECURSIVE KeyPositions(_, _)
AfterValue(txt, j, m) == IF m = 0 THEN {} ELSE KeyPositions(txt, j + m)
AfterKey(txt, i, k) ==
    IF k = 0 THEN {} ELSE AfterValue(txt, i + k, ValueLenAt(txt, i + k))
KeyPositions(txt, i) == {i} \cup AfterKey(txt, i, StringLenAt(txt, i))

\* The last operation ran decoder d at a cursor whose next character is c.
Ran(d, c) ==
    /\ op = "run_decoder"
    /\ dec = d
    /\ from < Len(data)
    /\ data[from + 1] = c

\* The last operation returned the value that the k characters at its
\* cursor denote, and moved the cursor by k.
Decoded(k) ==
    /\ value = Denotes[SubSeq(data, from + 1, from + k)]
    /\ index = from + k

\* C1: the dispatcher-selected decoder, run at the start of a well-formed
\* text, returns the value the text denotes and a cursor advanced by exactly
\* the length of the text.
C1_WellFormedDecodes ==
    (op = "run_decoder" /\ dec = next_decoder(data, from))
    => (ValueLenAt(data, from) = 0 \/ Decoded(ValueLenAt(data, from)))

\* A dict with an entry, decoded from an input with characters left after
\* it.
C1_Witness ==
    /\ Ran("Dict", "d")
    /\ index < Len(data)
    /\ index - from = ValueLenAt(data, from)
    /\ value.t = "Object"
    /\ value.m # EmptyMap

\* C2: the Integer decoder returns no value when no 'e' follows the 'i'.
C2_UnterminatedIntegerFails ==
    (Ran("Integer", "i") /\ \A k \in (from + 1)..Len(data) : data[k] # "e")
    => value = None

\* The positions of the ':' characters of a text after index i.
Colons(txt, i) == {p \in (i + 1)..Len(txt) : txt[p] = ":"}

Least(ps) == CHOOSE q \in ps : \A r \in ps : q <= r

\* Digits only before the ':' at position p, and fewer characters after it
\* than the digits say.
ShortAfter(txt, i, p) ==
    /\ \A k \in (i + 1)..(p - 1) : txt[k] \in Digits
    /\ Len(txt) - p < NumVal(SubSeq(txt, i + 1, p - 1))

\* The text at index i starts with length digits and is cut short: the text
\* ends before a ':', or fewer characters than the length follow the ':'.
Truncated(txt, i) ==
    /\ i < Len(txt)
    /\ txt[i + 1] \in Digits
    /\ \/ Colons(txt, i) = {}
       \/ ShortAfter(txt, i, Least(Colons(txt, i)))

\* C3: the String decoder returns no value on truncated input.
C3_TruncatedStringFails ==
    (op = "run_decoder" /\ dec = "String" /\ Truncated(data, from))
    => value = None

\* C4: when run_decoder returns no value the cursor is where it was, and no
\* operation on a cursor changes the shared character sequence.
C4_FailedDecodeKeepsCursor ==
    [][/\ op # "start" => data' = data
       /\ (op' = "run_decoder" /\ value' = None) => index' = index]_vars

\* A failed run of the List decoder, inside the input, whose attempt had
\* read characters.
C4_Witness ==
    /\ Ran("List", "l")
    /\ value = None
    /\ index = from
    /\ from > 0
    /\ try_decode(dec, data, from).idx > from + 1

\* The last operation succeeded with the value the first k characters of
\* the input decode to on their own.
AsAlone(k) ==
    /\ value # None
    /\ value = decode_bencoded_value(SubSeq(data, 1, k)).val

\* C5: the top-level decode of a well-formed text followed by any
\* characters succeeds with the value of the text alone.
C5_TrailingIgnored ==
    op = "decode_lib" => (ValueLenAt(data, 0) = 0 \/ AsAlone(ValueLenAt(data, 0)))

\* A list with an element decoded from an input with characters after it.
C5_Witness ==
    /\ op = "decode_lib"
    /\ ValueLenAt(data, 0) \in 1..(Len(data) - 1)
    /\ value.t = "Array"
    /\ value.a # <<>>

\* A well-formed key of k characters at position p with 'e' or the end of
\* the input right after it.
KeyAlone(p, k) ==
    /\ k > 0
    /\ (p + k = Len(data) \/ data[p + k + 1] = "e")

\* C6: the Dict decoder returns no value when a well-formed key is followed
\* at once by the closing 'e' or by the end of the input.
C6_KeyWithoutValueFails ==
    (/\ Ran("Dict", "d")
     /\ \E p \in KeyPositions(data, from + 1) : KeyAlone(p, StringLenAt(data, p)))
    => value = None

\* C7: the Dict decoder returns no value when the text at a key position
\* starts with neither a digit nor the closing 'e'.
C7_BadKeyFails ==
    (/\ Ran("Dict", "d")
     /\ \E p \in KeyPositions(data, from + 1) :
          p < Len(data) /\ data[p + 1] \notin Digits \cup {"e"})
    => value = None

\* The Dict decoder returned an entry whose key text is a bare ':'.
C7_Witness ==
    /\ Ran("Dict", "d")
    /\ from + 1 < Len(data)
    /\ data[from + 2] = ":"
    /\ value.t = "Object"
    /\ value.m # EmptyMap

\* C8: the Integer decoder returns no value when the character after the
\* 'i' is neither a digit nor '-', and a negative number only after a '-'.
C8_OnlyMinusIsASign ==
    (Ran("Integer", "i") /\ from + 1 < Len(data))
    => /\ data[from + 2] \notin Digits \cup {"-"} => value = None
       /\ (value # None /\ value.n < 0) => data[from + 2] = "-"

\* The Integer decoder returned a number from a text that ends with 'e' and
\* has a character that is neither a digit nor '-' after the 'i'.
C8_Witness ==
    /\ Ran("Integer", "i")
    /\ from + 1 < Len(data)
    /\ data[from + 2] \notin Digits \cup {"-"}
    /\ value # None
    /\ data[index] = "e"

\* C9: every iteration of the list and dict loops that is not the last one
\* (next() returned a value, so collect() calls it again) moves the cursor
\* forward, and the cursor never passes the end of the input: a loop over an
\* input of n characters calls next() at most n + 1 times.
C9_LoopsTerminate ==
    [][/\ index' <= Len(data')
       /\ (op' \in {"list_next", "dict_next"} /\ value' # None) => index' > index]_vars

\* An iteration of the dict loop, started inside the input, that returned a
\* pair.
C9_Witness ==
    /\ op = "dict_next"
    /\ value # None
    /\ from > 0
    /\ index > from

\* The last operation returned what r holds.
Agrees(r) == value = r.val

\* C10: on an input with no 'd' in it that lib.rs decodes, main.rs returns
\* the same value.
C10_MainAgreesWithLib ==
    (/\ op = "decode_main"
     /\ \A k \in 1..Len(data) : data[k] # "d"
     /\ value # decode_bencoded_value(data).val)
    => ~decode_bencoded_value(data).ok
====
